---- MODULE Spec2Model ----
(***************************************************************************)
(* Model of storage/postgres/postgres.go: the osin storage backend that    *)
(* keeps clients, authorization codes, access grants and refresh tokens in *)
(* four PostgreSQL tables.  The relational engine is modelled by the four  *)
(* tables (functions from primary key to row), the set of tables that      *)
(* exist, and one write set per open transaction.  Every handler of the    *)
(* Storage type is an action (single-statement handlers) or a short        *)
(* sequence of actions, one per database round trip (SaveAccess,           *)
(* LoadAccess, LoadRefresh), so that calls of different callers interleave *)
(* at statement granularity.                                               *)
(***************************************************************************)
EXTENDS Integers, Sequences, FiniteSets, TLC

\* ------------------------------------------------------------------------
\* Bounds of the model.
\* ------------------------------------------------------------------------

\* Calls of writing handlers (create, update, save, remove, bootstrap) a
\* behaviour of the sequential specification may make; reads are not limited.
MaxWrites == 4

\* Calls of any handler a behaviour of the concurrent specification may make.
MaxCallsConc == 2

\* Frames of LoadAccess recursion the model follows before it reports the
\* goroutine stack as exhausted.  It exceeds the number of access tokens, so
\* a walk that reaches it has visited some token twice.
MaxDepth == 3

Procs == {1, 2}

ClientIds == {"", "c1"}
ClientSecrets == {"s1", "s2"}
Codes == {"", "z1"}
AccessTokens == {"a1", "a2"}
RefreshTokens == {"r1", "r2"}
Scopes == {"read"}

\* ------------------------------------------------------------------------
\* State.
\* ------------------------------------------------------------------------
VARIABLES
    schema,     \* names of the tables that exist in the database
    client,     \* table client:    id           -> row
    authorize,  \* table authorize: code         -> row
    access,     \* table access:    access_token -> row
    refresh,    \* table refresh:   token        -> row
    pc,         \* per caller: position inside the handler it is running
    tx,         \* per caller: the open *sql.Tx of SaveAccess and its write set
    stack,      \* per caller: the activation records of LoadAccess
    ret,        \* per caller: the running / last call and what it returned
    ghost,      \* per caller: history of the running / last call
    nops,       \* calls made so far that count against the budget
    procs,      \* the callers of this behaviour
    removedCodes, \* history: codes RemoveAuthorize deleted, not saved since
    limit,      \* budget of calls of this behaviour
    readsFree   \* whether reading handlers are outside the budget

dbvars == <<schema, client, authorize, access, refresh>>
vars == <<schema, client, authorize, access, refresh, pc, tx, stack, ret,
          ghost, nops, removedCodes, procs, limit, readsFree>>

\* Optional values: <<>> is Go's nil, <<v>> a pointer to v.
None == <<>>
Some(v) == <<v>>

EmptyTable == [k \in {} |-> None]

Put(tbl, key, row) ==
    [k \in DOMAIN tbl \cup {key} |-> IF k = key THEN row ELSE tbl[k]]

Drop(tbl, key) == [k \in DOMAIN tbl \ {key} |-> tbl[k]]

Merge(tbl, more) ==
    [k \in DOMAIN tbl \cup DOMAIN more |->
        IF k \in DOMAIN more THEN more[k] ELSE tbl[k]]

AllTables == {"client", "authorize", "access", "refresh"}

\* ------------------------------------------------------------------------
\* The SQL statements, as the engine executes them.
\* ------------------------------------------------------------------------

\* The DDL statements of CreateSchemas in order; the first has no
\* IF NOT EXISTS clause.
schemas ==
    << [table |-> "client",    ifNotExists |-> FALSE],
       [table |-> "authorize", ifNotExists |-> TRUE],
       [table |-> "access",    ifNotExists |-> TRUE],
       [table |-> "refresh",   ifNotExists |-> TRUE] >>

\* One CREATE TABLE statement against the set of existing tables.
CreateTable(have, stmt) ==
    IF stmt.table \in have
    THEN [err |-> IF stmt.ifNotExists THEN {} ELSE {"DuplicateTable"},
          schema |-> have]
    ELSE [err |-> {}, schema |-> have \cup {stmt.table}]

\* ExecInsert as INSERT ... ON CONFLICT DO UPDATE would behave: a present
\* key is overwritten.
ExecInsert_Upsert(name, tbl, key, row) ==
    IF name \notin schema THEN [err |-> {"UndefinedTable"}, tbl |-> tbl]
    ELSE [err |-> {}, tbl |-> Put(tbl, key, row)]

\* ExecInsert on tables declared without their PRIMARY KEY constraint and
\* written in arrival order: a present key is not detected and the later
\* row is what a lookup by key finds.
ExecInsert_NoKey(name, tbl, key, row) ==
    IF name \notin schema THEN [err |-> {"UndefinedTable"}, tbl |-> tbl]
    ELSE [err |-> {}, tbl |-> Merge(tbl, Put(EmptyTable, key, row))]

\* INSERT of one row: the primary-key constraint rejects a present key.
ExecInsert(name, tbl, key, row) ==
    IF name \notin schema THEN [err |-> {"UndefinedTable"}, tbl |-> tbl]
    ELSE IF key \in DOMAIN tbl THEN [err |-> {"DuplicateKey"}, tbl |-> tbl]
    ELSE [err |-> {}, tbl |-> Put(tbl, key, row)]

\* ExecDelete with the WHERE clause lost: every row of the table goes.
ExecDelete_All(name, tbl, key) ==
    IF name \notin schema THEN [err |-> {"UndefinedTable"}, tbl |-> tbl]
    ELSE [err |-> {}, tbl |-> EmptyTable]

\* ExecDelete as a handler that checked RowsAffected would answer: deleting
\* nothing is reported as sql.ErrNoRows.
ExecDelete_Strict(name, tbl, key) ==
    IF name \notin schema THEN [err |-> {"UndefinedTable"}, tbl |-> tbl]
    ELSE IF key \notin DOMAIN tbl THEN [err |-> {"NoRows"}, tbl |-> tbl]
    ELSE [err |-> {}, tbl |-> Drop(tbl, key)]

\* DELETE ... WHERE key = $1: zero affected rows is no error.
ExecDelete(name, tbl, key) ==
    IF name \notin schema THEN [err |-> {"UndefinedTable"}, tbl |-> tbl]
    ELSE [err |-> {}, tbl |-> Drop(tbl, key)]

\* SELECT ... WHERE key = $1 LIMIT 1 followed by Scan.
QueryRow(name, tbl, key) ==
    IF name \notin schema THEN [err |-> {"UndefinedTable"}, row |-> None]
    ELSE IF key \notin DOMAIN tbl THEN [err |-> {"NoRows"}, row |-> None]
    ELSE [err |-> {}, row |-> Some(tbl[key])]

\* ------------------------------------------------------------------------
\* Inputs of the handlers.
\* ------------------------------------------------------------------------

\* osin.Client as the handlers use it: only GetId() is called on it.
ClientArgs == [Id : ClientIds]

GetId(c) == c.Id

\* Secret and redirect URI are drawn together.
RedirectOf(secret) == IF secret = "s1" THEN "u1" ELSE "u2"

AuthorizeArgs ==
    [Client : ClientArgs, Code : Codes, ExpiresIn : {3600}, Scope : Scopes,
     RedirectUri : {"u1"}, State : {"st"}, CreatedAt : {1}]

\* The grants SaveAccess is called with, as <<access token, data.AccessData,
\* data.AuthorizeData>>: a1 as the first grant of a chain, a2 rotated from
\* a1, and a1 rotated from a2 (data.AccessData is nil or the grant being
\* rotated).  a2 is redeemed from another code than a1, or comes with no
\* authorization grant at all (data.AuthorizeData is nil).
Rotations ==
    { <<"a1", None, Some([Code |-> "z1"])>>,
      <<"a2", Some([AccessToken |-> "a1"]), Some([Code |-> ""])>>,
      <<"a1", Some([AccessToken |-> "a2"]), Some([Code |-> "z1"])>>,
      <<"a2", Some([AccessToken |-> "a1"]), None>> }

\* A grant that comes with no authorization grant is given no refresh
\* token.
AccessArgs ==
    { [Client |-> [Id |-> "c1"], AuthorizeData |-> g[1][3],
       AccessData |-> g[1][2], AccessToken |-> g[1][1], RefreshToken |-> g[2],
       ExpiresIn |-> 3600, Scope |-> "read", RedirectUri |-> "u1",
       CreatedAt |-> 2] :
      g \in { h \in Rotations \X ({""} \cup RefreshTokens) :
                h[1][3] # None \/ h[2] = "" } }

\* ------------------------------------------------------------------------
\* The handlers as functions of the database state.
\* ------------------------------------------------------------------------

\* Storage.CreateSchemas: the statements in order, stopping at the first
\* error; each statement takes effect on its own.
RECURSIVE RunSchemas(_, _)
RunSchemas(have, k) ==
    IF k > Len(schemas) THEN [err |-> {}, schema |-> have]
    ELSE LET r == CreateTable(have, schemas[k])
         IN  IF r.err # {} THEN r ELSE RunSchemas(r.schema, k + 1)

CreateSchemas == RunSchemas(schema, 1)

\* Storage.GetClient.
GetClient(id) ==
    LET q == QueryRow("client", client, id)
    IN  IF q.err # {} THEN [err |-> q.err, val |-> None]
        ELSE [err |-> {},
              val |-> Some([Id |-> q.row[1].id, Secret |-> q.row[1].secret,
                            RedirectUri |-> q.row[1].redirect_uri])]

\* UpdateClient answering with the new values and writing nothing.
UpdateClient_Noop(id, secret, redirectURI) ==
    IF "client" \notin schema
    THEN [err |-> {"UndefinedTable"}, val |-> None, client |-> client]
    ELSE [err |-> {},
          val |-> Some([Id |-> id, Secret |-> secret,
                        RedirectUri |-> redirectURI]),
          client |-> client]

\* Storage.UpdateClient: the UPDATE affects the rows that match, possibly
\* none, and the handler answers with the values it was given.
UpdateClient(id, secret, redirectURI) ==
    IF "client" \notin schema
    THEN [err |-> {"UndefinedTable"}, val |-> None, client |-> client]
    ELSE [err |-> {},
          val |-> Some([Id |-> id, Secret |-> secret,
                        RedirectUri |-> redirectURI]),
          client |-> IF id \in DOMAIN client
                     THEN [client EXCEPT ![id].secret = secret,
                                         ![id].redirect_uri = redirectURI]
                     ELSE client]

\* Storage.CreateClient.
CreateClient(id, secret, redirectURI) ==
    LET r == ExecInsert("client", client, id,
                        [id |-> id, secret |-> secret,
                         redirect_uri |-> redirectURI])
    IN  IF r.err # {}
        THEN [err |-> r.err, val |-> None, client |-> client]
        ELSE [err |-> {},
              val |-> Some([Id |-> id, Secret |-> secret,
                            RedirectUri |-> redirectURI]),
              client |-> r.tbl]

\* AuthorizeRow with the state column left empty.
AuthorizeRow_NoState(data) ==
    [client |-> GetId(data.Client), code |-> data.Code,
     expires_in |-> data.ExpiresIn, scope |-> data.Scope,
     redirect_uri |-> data.RedirectUri, state |-> "",
     created_at |-> data.CreatedAt]

\* The row SaveAuthorize writes for data.
AuthorizeRow(data) ==
    [client |-> GetId(data.Client), code |-> data.Code,
     expires_in |-> data.ExpiresIn, scope |-> data.Scope,
     redirect_uri |-> data.RedirectUri, state |-> data.State,
     created_at |-> data.CreatedAt]

\* Storage.SaveAuthorize.
SaveAuthorize(data) ==
    LET r == ExecInsert("authorize", authorize, data.Code, AuthorizeRow(data))
    IN  [err |-> r.err, authorize |-> r.tbl]

\* Storage.LoadAuthorize: the row, then its client.
LoadAuthorize(code) ==
    LET q == QueryRow("authorize", authorize, code)
    IN  IF q.err # {} THEN [err |-> q.err, val |-> None]
        ELSE LET row == q.row[1]
                 c == GetClient(row.client)
             IN  IF c.err # {} THEN [err |-> c.err, val |-> None]
                 ELSE [err |-> {},
                       val |-> Some([Client |-> c.val, Code |-> row.code,
                                     ExpiresIn |-> row.expires_in,
                                     Scope |-> row.scope,
                                     RedirectUri |-> row.redirect_uri,
                                     State |-> row.state,
                                     CreatedAt |-> row.created_at])]

\* LoadAuthorizeEffect of a store that enforced single use: the code is
\* deleted as it is loaded.
LoadAuthorizeEffect_SingleUse(code) == Drop(authorize, code)

\* The authorize table after LoadAuthorize(code): the handler sends two
\* SELECT statements and nothing that writes.
LoadAuthorizeEffect(code) == authorize

\* Storage.RemoveAuthorize.
RemoveAuthorize(code) ==
    LET r == ExecDelete("authorize", authorize, code)
    IN  [err |-> r.err, authorize |-> r.tbl]

\* Storage.RemoveAccess.
RemoveAccess(code) ==
    LET r == ExecDelete("access", access, code)
    IN  [err |-> r.err, access |-> r.tbl]

\* Storage.RemoveRefresh.
RemoveRefresh(code) ==
    LET r == ExecDelete("refresh", refresh, code)
    IN  [err |-> r.err, refresh |-> r.tbl]

\* ------------------------------------------------------------------------
\* The transaction of SaveAccess.
\* ------------------------------------------------------------------------

\* No transaction.
NoTx == [open |-> FALSE, refresh |-> EmptyTable, access |-> EmptyTable]

\* db.Begin(): it fails only when the engine cannot be reached.
Begin(fail) ==
    IF fail THEN [err |-> {"BeginFailed"}, tx |-> NoTx]
    ELSE [err |-> {}, tx |-> [NoTx EXCEPT !.open = TRUE]]

\* tx.Exec of an INSERT: the key is checked against the committed rows and
\* the rows this transaction has written; the row stays in the write set
\* until the transaction ends.
TxInsert(name, tbl, pending, key, row) ==
    LET r == ExecInsert(name, Merge(tbl, pending), key, row)
    IN  [err |-> r.err,
         pending |-> IF r.err = {} THEN Put(pending, key, row) ELSE pending]

\* tx.Rollback(): the write set is dropped whether or not the call reports
\* an error (a transaction that is not committed leaves nothing behind).
Rollback(t, fail) ==
    [err |-> IF fail THEN {"RollbackFailed"} ELSE {}, tx |-> NoTx]

\* tx.Commit(): the write set becomes visible, or, when the commit fails,
\* is dropped.
Commit(t, fail) ==
    IF fail
    THEN [err |-> {"CommitFailed"}, tx |-> NoTx,
          refresh |-> refresh, access |-> access]
    ELSE [err |-> {}, tx |-> NoTx,
          refresh |-> Merge(refresh, t.refresh),
          access |-> Merge(access, t.access)]

\* An INSERT waits while another open transaction holds an uncommitted row
\* with the same key.
Blocked(p, name, key) ==
    \E q \in procs \ {p} : tx[q].open /\ key \in DOMAIN tx[q][name]

\* prev of SaveAccess.
Prev(data) ==
    IF data.AccessData # None THEN data.AccessData[1].AccessToken ELSE ""

\* Line 137, the arguments of tx.Exec: data.AuthorizeData.Code dereferences
\* a nil pointer when the grant carries no authorization grant, and the
\* call panics before the statement is sent.
Panics(data) == data.AuthorizeData = None

\* The row SaveAccess writes for data.
AccessRow(data) ==
    [client |-> GetId(data.Client), authorize |-> data.AuthorizeData[1].Code,
     previous |-> Prev(data), access_token |-> data.AccessToken,
     refresh_token |-> data.RefreshToken, expires_in |-> data.ExpiresIn,
     scope |-> data.Scope, redirect_uri |-> data.RedirectUri,
     created_at |-> data.CreatedAt]

\* saveRefresh with the statement's error dropped: no rollback, nil returned.
saveRefresh_IgnoreError(t, token, accessToken, rbFail) ==
    LET r == TxInsert("refresh", refresh, t.refresh, token,
                      [token |-> token, access |-> accessToken])
    IN  [err |-> {}, tx |-> [t EXCEPT !.refresh = r.pending],
         trig |-> {}, rb |-> "none"]

\* saveRefresh: the INSERT into refresh inside the transaction; on an error
\* the transaction is rolled back and a rollback error is returned instead
\* of the statement's.  trig is the statement's error, rb the rollback's.
saveRefresh(t, token, accessToken, rbFail) ==
    LET r == TxInsert("refresh", refresh, t.refresh, token,
                      [token |-> token, access |-> accessToken])
    IN  IF r.err # {}
        THEN LET rb == Rollback(t, rbFail)
             IN  [err |-> IF rb.err # {} THEN rb.err ELSE r.err,
                  tx |-> rb.tx, trig |-> r.err,
                  rb |-> IF rb.err # {} THEN "failed" ELSE "ok"]
        ELSE [err |-> {}, tx |-> [t EXCEPT !.refresh = r.pending],
              trig |-> {}, rb |-> "none"]

\* SaveAccess, lines 137-143: the INSERT into access inside the transaction
\* with the same error handling.
SaveAccessInsert(t, data, rbFail) ==
    LET r == TxInsert("access", access, t.access, data.AccessToken,
                      AccessRow(data))
    IN  IF r.err # {}
        THEN LET rb == Rollback(t, rbFail)
             IN  [err |-> IF rb.err # {} THEN rb.err ELSE r.err,
                  tx |-> rb.tx, trig |-> r.err,
                  rb |-> IF rb.err # {} THEN "failed" ELSE "ok"]
        ELSE [err |-> {}, tx |-> [t EXCEPT !.access = r.pending],
              trig |-> {}, rb |-> "none"]

\* ------------------------------------------------------------------------
\* LoadAccess, one activation record per level of the recursion.
\* ------------------------------------------------------------------------

\* The zero value of osin.AccessData.
BlankAccess ==
    [Client |-> None, AuthorizeData |-> None, AccessData |-> None,
     AccessToken |-> "", RefreshToken |-> "", ExpiresIn |-> 0, Scope |-> "",
     RedirectUri |-> "", CreatedAt |-> 0]

\* The locals of LoadAccess(code) on entry.
NewFrame(code) ==
    [code |-> code, cid |-> "", authorizeCode |-> "", prevAccessToken |-> "",
     result |-> BlankAccess]

\* Lines 155-156: the row is scanned into the locals; the error of Scan is
\* assigned and never read, so a missing row leaves the zero values.
ScanAccess(f) ==
    LET q == QueryRow("access", access, f.code)
    IN  IF q.err # {} THEN f
        ELSE LET row == q.row[1]
             IN  [f EXCEPT
                    !.cid = row.client,
                    !.authorizeCode = row.authorize,
                    !.prevAccessToken = row.previous,
                    !.result = [BlankAccess EXCEPT
                                  !.AccessToken = row.access_token,
                                  !.RefreshToken = row.refresh_token,
                                  !.ExpiresIn = row.expires_in,
                                  !.Scope = row.scope,
                                  !.RedirectUri = row.redirect_uri,
                                  !.CreatedAt = row.created_at]]

\* Lines 158-162.
ResolveClient(f) ==
    LET c == GetClient(f.cid)
    IN  IF c.err # {} THEN [err |-> c.err, frame |-> f]
        ELSE [err |-> {}, frame |-> [f EXCEPT !.result.Client = c.val]]

\* ResolveAuthorize with the error of LoadAuthorize dropped, as the error of
\* Scan is.
ResolveAuthorize_IgnoreError(f) ==
    LET a == LoadAuthorize(f.authorizeCode)
    IN  [err |-> {}, frame |-> [f EXCEPT !.result.AuthorizeData = a.val]]

\* Lines 164-168.
ResolveAuthorize(f) ==
    LET a == LoadAuthorize(f.authorizeCode)
    IN  IF a.err # {} THEN [err |-> a.err, frame |-> f]
        ELSE [err |-> {}, frame |-> [f EXCEPT !.result.AuthorizeData = a.val]]

\* Lines 170-178: whether the level recurses.
Recurses(f) == f.prevAccessToken # ""

\* Unwind with line 175 missing: the predecessor is loaded and not attached.
Unwind_NoAttach(s) == s[1].result

\* Lines 171-178 on the way back: every level attaches what the level
\* below returned and returns its own result.
RECURSIVE Unwind(_)
Unwind(s) ==
    IF Len(s) = 1 THEN s[1].result
    ELSE [s[1].result EXCEPT !.AccessData = Some(Unwind(Tail(s)))]

\* Storage.LoadAccess as a function of the tables, for a call that runs with
\* no other caller in between: depth counts the activation records, and a
\* recursion past MaxDepth does not return.
RECURSIVE LoadAccess(_, _)
LoadAccess(code, depth) ==
    LET c == ResolveClient(ScanAccess(NewFrame(code)))
        a == ResolveAuthorize(c.frame)
    IN  IF c.err # {} THEN [err |-> c.err, val |-> None, returns |-> TRUE]
        ELSE IF a.err # {} THEN [err |-> a.err, val |-> None, returns |-> TRUE]
        ELSE IF ~Recurses(a.frame)
        THEN [err |-> {}, val |-> Some(a.frame.result), returns |-> TRUE]
        ELSE IF depth >= MaxDepth
        THEN [err |-> {}, val |-> None, returns |-> FALSE]
        ELSE LET prevAccess == LoadAccess(a.frame.prevAccessToken, depth + 1)
             IN  IF ~prevAccess.returns \/ prevAccess.err # {}
                 THEN [prevAccess EXCEPT !.val = None]
                 ELSE [err |-> {},
                       val |-> Some([a.frame.result EXCEPT
                                       !.AccessData = prevAccess.val]),
                       returns |-> TRUE]

\* RefreshTarget handing LoadAccess the refresh token itself.
RefreshTarget_Token(row) == row.token

\* Lines 202-206: the access token LoadRefresh scans from the mapping row
\* and hands to LoadAccess.
RefreshTarget(row) == row.access

\* Storage.LoadRefresh as a function of the tables.
LoadRefresh(code) ==
    LET q == QueryRow("refresh", refresh, code)
    IN  IF q.err # {} THEN [err |-> q.err, val |-> None, returns |-> TRUE]
        ELSE LoadAccess(RefreshTarget(q.row[1]), 1)

\* ------------------------------------------------------------------------
\* Calls and their bookkeeping.
\* ------------------------------------------------------------------------

Snapshot ==
    [schema |-> schema, client |-> client, authorize |-> authorize,
     access |-> access, refresh |-> refresh]

\* History of a call as it starts: the number of writing calls up to it, the
\* database it found, the
\* statement error that made it roll back (trig), how the rollback went
\* (rb), whether Begin, Commit or Rollback failed on it (fault), and how
\* often it ended its transaction (ends).
NewGhost ==
    [n |-> nops', pre |-> Snapshot, trig |-> {}, rb |-> "none",
     fault |-> FALSE, ends |-> 0]

NoCall == [op |-> "none", arg |-> None, err |-> {}, val |-> None]

NoGhost ==
    [n |-> 0,
     pre |-> [schema |-> {}, client |-> EmptyTable, authorize |-> EmptyTable,
              access |-> EmptyTable, refresh |-> EmptyTable],
     trig |-> {}, rb |-> "none", fault |-> FALSE, ends |-> 0]

\* Handlers that only read.
Reads == {"GetClient", "LoadAuthorize", "LoadAccess", "LoadRefresh"}

\* A call starts and uses up one unit of the budget, unless it only reads
\* and reads are free.  The storage does not tell its callers apart, so the
\* first call of a behaviour is taken to be caller 1's.
Enter(p, op) ==
    /\ pc[p] = "idle"
    /\ nops = 0 => p = 1
    /\ IF op \in Reads /\ readsFree THEN UNCHANGED nops
       ELSE nops < limit /\ nops' = nops + 1
    /\ UNCHANGED <<procs, limit, readsFree>>

\* A handler that is one statement: called and returned in one step.
Atomic(p, op, arg, err, val) ==
    /\ Enter(p, op)
    /\ ret' = [ret EXCEPT ![p] = [op |-> op, arg |-> arg, err |-> err,
                                  val |-> val]]
    /\ ghost' = [ghost EXCEPT ![p] = NewGhost]
    /\ removedCodes' =
         IF op = "RemoveAuthorize" /\ err = {} /\ arg \in DOMAIN authorize
         THEN removedCodes \cup {arg}
         ELSE IF op = "SaveAuthorize" /\ err = {}
         THEN removedCodes \ {arg.Code}
         ELSE removedCodes
    /\ UNCHANGED <<pc, tx, stack>>

\* The last step of a handler that takes several.
Return(p, err, val) ==
    /\ pc' = [pc EXCEPT ![p] = "idle"]
    /\ ret' = [ret EXCEPT ![p].err = err, ![p].val = val]

\* The calls that wrote the database of an earlier run of the service: one
\* client, one authorization code of that client, and one access grant
\* redeemed from the code together with its refresh token.
SeedAuthorize ==
    [Client |-> [Id |-> "c1"], Code |-> "z1", ExpiresIn |-> 3600,
     Scope |-> "read", RedirectUri |-> "u1", State |-> "st", CreatedAt |-> 1]

SeedAccess ==
    [Client |-> [Id |-> "c1"], AuthorizeData |-> Some([Code |-> "z1"]),
     AccessData |-> None, AccessToken |-> "a1", RefreshToken |-> "r1",
     ExpiresIn |-> 3600, Scope |-> "read", RedirectUri |-> "u1",
     CreatedAt |-> 2]

\* The database New is handed: fresh, bootstrapped and empty, or
\* bootstrapped and written by CreateClient("c1", "s1", "u1"),
\* SaveAuthorize(SeedAuthorize) and SaveAccess(SeedAccess).
InitDb ==
    \/ /\ schema = {}
       /\ client = EmptyTable
       /\ authorize = EmptyTable
       /\ access = EmptyTable
       /\ refresh = EmptyTable
    \/ /\ schema = AllTables
       /\ client = EmptyTable
       /\ authorize = EmptyTable
       /\ access = EmptyTable
       /\ refresh = EmptyTable
    \/ /\ schema = AllTables
       /\ client = Put(EmptyTable, "c1",
                       [id |-> "c1", secret |-> "s1", redirect_uri |-> "u1"])
       /\ authorize = Put(EmptyTable, "z1", AuthorizeRow(SeedAuthorize))
       /\ access = Put(EmptyTable, "a1", AccessRow(SeedAccess))
       /\ refresh = Put(EmptyTable, "r1", [token |-> "r1", access |-> "a1"])

InitProcs ==
    /\ pc = [p \in Procs |-> "idle"]
    /\ tx = [p \in Procs |-> NoTx]
    /\ stack = [p \in Procs |-> <<>>]
    /\ ret = [p \in Procs |-> NoCall]
    /\ ghost = [p \in Procs |-> NoGhost]
    /\ nops = 0
    /\ removedCodes = {}

\* New(db), the storage used by one caller.
Init ==
    /\ InitDb
    /\ InitProcs
    /\ procs = {1}
    /\ limit = MaxWrites
    /\ readsFree = TRUE

\* The same storage shared by two callers, on the bootstrapped database
\* that has no rows yet.
InitConc ==
    /\ InitDb
    /\ schema = AllTables
    /\ access = EmptyTable
    /\ InitProcs
    /\ procs = Procs
    /\ limit = MaxCallsConc
    /\ readsFree = FALSE

\* An authorization code with the empty string as key, held by the client
\* whose id is the empty string, and the grant a2 rotated from a1.
SeedBlankAuthorize ==
    [Client |-> [Id |-> ""], Code |-> "", ExpiresIn |-> 3600,
     Scope |-> "read", RedirectUri |-> "u1", State |-> "st", CreatedAt |-> 1]

SeedRotated ==
    [Client |-> [Id |-> "c1"], AuthorizeData |-> Some([Code |-> ""]),
     AccessData |-> Some([AccessToken |-> "a1"]), AccessToken |-> "a2",
     RefreshToken |-> "r2", ExpiresIn |-> 3600, Scope |-> "read",
     RedirectUri |-> "u1", CreatedAt |-> 2]

\* The database after CreateClient("c1", "s1", "u1"),
\* CreateClient("", "s1", "u1"), SaveAuthorize(SeedAuthorize),
\* SaveAuthorize(SeedBlankAuthorize), SaveAccess(SeedAccess) and
\* SaveAccess(SeedRotated).
InitDbRace ==
    /\ schema = AllTables
    /\ client = Put(Put(EmptyTable, "c1",
                        [id |-> "c1", secret |-> "s1", redirect_uri |-> "u1"]),
                    "", [id |-> "", secret |-> "s1", redirect_uri |-> "u1"])
    /\ authorize = Put(Put(EmptyTable, "z1", AuthorizeRow(SeedAuthorize)),
                       "", AuthorizeRow(SeedBlankAuthorize))
    /\ access = Put(Put(EmptyTable, "a1", AccessRow(SeedAccess)),
                    "a2", AccessRow(SeedRotated))
    /\ refresh = Put(Put(EmptyTable, "r1", [token |-> "r1", access |-> "a1"]),
                     "r2", [token |-> "r2", access |-> "a2"])

\* Two callers on that database.
InitRace ==
    /\ InitDbRace
    /\ InitProcs
    /\ procs = Procs
    /\ limit = MaxCallsConc
    /\ readsFree = FALSE

\* ------------------------------------------------------------------------
\* Single-statement handlers.
\* ------------------------------------------------------------------------

CreateSchemasCall(p) ==
    LET r == CreateSchemas
    IN  /\ Atomic(p, "CreateSchemas", None, r.err, None)
        /\ schema' = r.schema
        /\ UNCHANGED <<client, authorize, access, refresh>>

GetClientCall(p) ==
    \E id \in ClientIds :
        LET r == GetClient(id)
        IN  /\ Atomic(p, "GetClient", id, r.err, r.val)
            /\ UNCHANGED dbvars

UpdateClientCall(p) ==
    \E id \in ClientIds, secret \in ClientSecrets :
        LET r == UpdateClient(id, secret, RedirectOf(secret))
        IN  /\ Atomic(p, "UpdateClient", id, r.err, r.val)
            /\ client' = r.client
            /\ UNCHANGED <<schema, authorize, access, refresh>>

CreateClientCall(p) ==
    \E id \in ClientIds, secret \in ClientSecrets :
        LET r == CreateClient(id, secret, RedirectOf(secret))
        IN  /\ Atomic(p, "CreateClient", id, r.err, r.val)
            /\ client' = r.client
            /\ UNCHANGED <<schema, authorize, access, refresh>>

SaveAuthorizeCall(p) ==
    \E data \in AuthorizeArgs :
        LET r == SaveAuthorize(data)
        IN  /\ Atomic(p, "SaveAuthorize", data, r.err, None)
            /\ authorize' = r.authorize
            /\ UNCHANGED <<schema, client, access, refresh>>

LoadAuthorizeCall(p) ==
    \E code \in Codes :
        LET r == LoadAuthorize(code)
        IN  /\ Atomic(p, "LoadAuthorize", code, r.err, r.val)
            /\ authorize' = LoadAuthorizeEffect(code)
            /\ UNCHANGED <<schema, client, access, refresh>>

RemoveAuthorizeCall(p) ==
    \E code \in Codes :
        LET r == RemoveAuthorize(code)
        IN  /\ Atomic(p, "RemoveAuthorize", code, r.err, None)
            /\ authorize' = r.authorize
            /\ UNCHANGED <<schema, client, access, refresh>>

RemoveAccessCall(p) ==
    \E code \in AccessTokens :
        LET r == RemoveAccess(code)
        IN  /\ Atomic(p, "RemoveAccess", code, r.err, None)
            /\ access' = r.access
            /\ UNCHANGED <<schema, client, authorize, refresh>>

RemoveRefreshCall(p) ==
    \E code \in RefreshTokens :
        LET r == RemoveRefresh(code)
        IN  /\ Atomic(p, "RemoveRefresh", code, r.err, None)
            /\ refresh' = r.refresh
            /\ UNCHANGED <<schema, client, authorize, access>>

\* ------------------------------------------------------------------------
\* SaveAccess: Begin, the refresh row, the access row, Commit.
\* ------------------------------------------------------------------------

\* Lines 121-135 up to the call of saveRefresh.
SaveAccessBegin(p) ==
    \E data \in AccessArgs, fail \in BOOLEAN :
        LET b == Begin(fail)
        IN  /\ Enter(p, "SaveAccess")
            /\ tx' = [tx EXCEPT ![p] = b.tx]
            /\ ghost' = [ghost EXCEPT ![p] = [NewGhost EXCEPT !.fault = fail]]
            /\ ret' = [ret EXCEPT ![p] = [op |-> "SaveAccess", arg |-> data,
                                          err |-> b.err, val |-> None]]
            /\ pc' = [pc EXCEPT ![p] =
                        IF b.err # {} THEN "idle"
                        ELSE IF data.RefreshToken # "" THEN "sa_refresh"
                        ELSE "sa_access"]
            /\ UNCHANGED <<dbvars, stack, removedCodes>>

\* Lines 131-135.
SaveAccessRefresh(p) ==
    /\ pc[p] = "sa_refresh"
    /\ ~Blocked(p, "refresh", ret[p].arg.RefreshToken)
    /\ \E rbFail \in BOOLEAN :
        LET data == ret[p].arg
            r == saveRefresh(tx[p], data.RefreshToken, data.AccessToken, rbFail)
        IN  /\ tx' = [tx EXCEPT ![p] = r.tx]
            /\ ghost' = [ghost EXCEPT
                           ![p].trig = r.trig, ![p].rb = r.rb,
                           ![p].fault = @ \/ r.rb = "failed",
                           ![p].ends = @ + (IF r.rb = "none" THEN 0 ELSE 1)]
            /\ IF r.err # {}
               THEN Return(p, r.err, None)
               ELSE /\ pc' = [pc EXCEPT ![p] = "sa_access"]
                    /\ UNCHANGED ret
    /\ UNCHANGED <<dbvars, stack, nops, removedCodes, procs, limit, readsFree>>

\* Lines 137-143.  A panic unwinds the call with no deferred Rollback: the
\* caller is gone and its transaction stays open.
SaveAccessRow(p) ==
    /\ pc[p] = "sa_access"
    /\ IF Panics(ret[p].arg)
       THEN /\ pc' = [pc EXCEPT ![p] = "panicked"]
            /\ UNCHANGED <<tx, ghost, ret>>
       ELSE /\ ~Blocked(p, "access", ret[p].arg.AccessToken)
            /\ \E rbFail \in BOOLEAN :
                LET r == SaveAccessInsert(tx[p], ret[p].arg, rbFail)
                IN  /\ tx' = [tx EXCEPT ![p] = r.tx]
                    /\ ghost' = [ghost EXCEPT
                           ![p].trig = r.trig, ![p].rb = r.rb,
                           ![p].fault = @ \/ r.rb = "failed",
                           ![p].ends = @ + (IF r.rb = "none" THEN 0 ELSE 1)]
                    /\ IF r.err # {}
                       THEN Return(p, r.err, None)
                       ELSE /\ pc' = [pc EXCEPT ![p] = "sa_commit"]
                            /\ UNCHANGED ret
    /\ UNCHANGED <<dbvars, stack, nops, removedCodes, procs, limit, readsFree>>

\* Lines 145-149.
SaveAccessCommit(p) ==
    /\ pc[p] = "sa_commit"
    /\ \E fail \in BOOLEAN :
        LET c == Commit(tx[p], fail)
        IN  /\ tx' = [tx EXCEPT ![p] = c.tx]
            /\ refresh' = c.refresh
            /\ access' = c.access
            /\ ghost' = [ghost EXCEPT ![p].fault = @ \/ fail,
                                      ![p].ends = @ + 1]
            /\ Return(p, c.err, None)
    /\ UNCHANGED <<schema, client, authorize, stack, nops, removedCodes, procs,
                   limit, readsFree>>

\* ------------------------------------------------------------------------
\* LoadAccess and LoadRefresh: one step per lookup.
\* ------------------------------------------------------------------------

\* The call LoadAccess(code).
LoadAccessCall(p) ==
    \E code \in AccessTokens :
        /\ Enter(p, "LoadAccess")
        /\ ret' = [ret EXCEPT ![p] = [op |-> "LoadAccess", arg |-> code,
                                      err |-> {}, val |-> None]]
        /\ ghost' = [ghost EXCEPT ![p] = NewGhost]
        /\ stack' = [stack EXCEPT ![p] = <<NewFrame(code)>>]
        /\ pc' = [pc EXCEPT ![p] = "la_access"]
        /\ UNCHANGED <<dbvars, tx, removedCodes>>

\* Storage.LoadRefresh: the mapping row, then LoadAccess of its token.
LoadRefreshCall(p) ==
    \E code \in RefreshTokens :
        LET q == QueryRow("refresh", refresh, code)
        IN  /\ Enter(p, "LoadRefresh")
            /\ ret' = [ret EXCEPT ![p] = [op |-> "LoadRefresh", arg |-> code,
                                          err |-> q.err, val |-> None]]
            /\ ghost' = [ghost EXCEPT ![p] = NewGhost]
            /\ IF q.err # {}
               THEN /\ pc' = [pc EXCEPT ![p] = "idle"]
                    /\ UNCHANGED stack
               ELSE /\ pc' = [pc EXCEPT ![p] = "la_access"]
                    /\ stack' = [stack EXCEPT
                                   ![p] = <<NewFrame(RefreshTarget(q.row[1]))>>]
            /\ UNCHANGED <<dbvars, tx, removedCodes>>

Top(p) == stack[p][Len(stack[p])]

SetTop(p, f) == [stack EXCEPT ![p][Len(stack[p])] = f]

\* Lines 155-156 of the innermost level.
LoadAccessScan(p) ==
    /\ pc[p] = "la_access"
    /\ stack' = SetTop(p, ScanAccess(Top(p)))
    /\ pc' = [pc EXCEPT ![p] = "la_client"]
    /\ UNCHANGED <<dbvars, tx, ret, ghost, nops, removedCodes, procs, limit, readsFree>>

\* Lines 158-162 of the innermost level; an error is returned by every
\* level above it.
LoadAccessClient(p) ==
    /\ pc[p] = "la_client"
    /\ LET r == ResolveClient(Top(p))
       IN  IF r.err # {}
           THEN /\ Return(p, r.err, None)
                /\ stack' = [stack EXCEPT ![p] = <<>>]
           ELSE /\ pc' = [pc EXCEPT ![p] = "la_authorize"]
                /\ stack' = SetTop(p, r.frame)
                /\ UNCHANGED ret
    /\ UNCHANGED <<dbvars, tx, ghost, nops, removedCodes, procs, limit, readsFree>>

\* Lines 164-178 of the innermost level: the authorization grant, then the
\* recursive call or the return through all levels.  A recursion deeper
\* than MaxDepth exhausts the stack: the call never returns.
LoadAccessAuthorize(p) ==
    /\ pc[p] = "la_authorize"
    /\ LET r == ResolveAuthorize(Top(p))
           s == SetTop(p, r.frame)[p]
       IN  IF r.err # {}
           THEN /\ Return(p, r.err, None)
                /\ stack' = [stack EXCEPT ![p] = <<>>]
           ELSE IF Recurses(r.frame)
           THEN IF Len(s) < MaxDepth
                THEN /\ stack' = [stack EXCEPT ![p] =
                           Append(s, NewFrame(r.frame.prevAccessToken))]
                     /\ pc' = [pc EXCEPT ![p] = "la_access"]
                     /\ UNCHANGED ret
                ELSE /\ stack' = [stack EXCEPT ![p] = <<>>]
                     /\ pc' = [pc EXCEPT ![p] = "overflow"]
                     /\ UNCHANGED ret
           ELSE /\ Return(p, {}, Some(Unwind(s)))
                /\ stack' = [stack EXCEPT ![p] = <<>>]
    /\ authorize' = LoadAuthorizeEffect(Top(p).authorizeCode)
    /\ UNCHANGED <<schema, client, access, refresh, tx, ghost, nops,
                   removedCodes, procs, limit, readsFree>>

\* ------------------------------------------------------------------------
\* Specifications.
\* ------------------------------------------------------------------------

Next ==
    \/ \E p \in procs : CreateSchemasCall(p)
    \/ \E p \in procs : GetClientCall(p)
    \/ \E p \in procs : UpdateClientCall(p)
    \/ \E p \in procs : CreateClientCall(p)
    \/ \E p \in procs : SaveAuthorizeCall(p)
    \/ \E p \in procs : LoadAuthorizeCall(p)
    \/ \E p \in procs : RemoveAuthorizeCall(p)
    \/ \E p \in procs : RemoveAccessCall(p)
    \/ \E p \in procs : RemoveRefreshCall(p)
    \/ \E p \in procs : SaveAccessBegin(p)
    \/ \E p \in procs : SaveAccessRefresh(p)
    \/ \E p \in procs : SaveAccessRow(p)
    \/ \E p \in procs : SaveAccessCommit(p)
    \/ \E p \in procs : LoadAccessCall(p)
    \/ \E p \in procs : LoadRefreshCall(p)
    \/ \E p \in procs : LoadAccessScan(p)
    \/ \E p \in procs : LoadAccessClient(p)
    \/ \E p \in procs : LoadAccessAuthorize(p)

\* One caller: the handlers run one after the other.
Spec == Init /\ [][Next]_vars

\* Two callers: the handlers interleave at their database round trips.
SpecConc == InitConc /\ [][Next]_vars

\* Two callers on a database that holds a chain of two grants and the
\* records with the empty string as key.
SpecRace == InitRace /\ [][Next]_vars

\* ------------------------------------------------------------------------
\* Properties.
\* ------------------------------------------------------------------------

\* Caller p has returned from a call of op and has called nothing since.
Returned(p, op) == p \in procs /\ pc[p] = "idle" /\ ret[p].op = op

Failed(p) == ret[p].err # {}

\* What a load is expected to return, read off the tables.
ClientOf(id) ==
    [Id |-> client[id].id, Secret |-> client[id].secret,
     RedirectUri |-> client[id].redirect_uri]

AuthorizeOf(code) ==
    LET r == authorize[code]
    IN  [Client |-> Some(ClientOf(r.client)), Code |-> r.code,
         ExpiresIn |-> r.expires_in, Scope |-> r.scope,
         RedirectUri |-> r.redirect_uri, State |-> r.state,
         CreatedAt |-> r.created_at]

GrantOf(tok, pred) ==
    LET r == access[tok]
    IN  [Client |-> Some(ClientOf(r.client)),
         AuthorizeData |-> Some(AuthorizeOf(r.authorize)),
         AccessData |-> pred, AccessToken |-> r.access_token,
         RefreshToken |-> r.refresh_token, ExpiresIn |-> r.expires_in,
         Scope |-> r.scope, RedirectUri |-> r.redirect_uri,
         CreatedAt |-> r.created_at]

\* The access row of tok exists, and so do its client, its authorization
\* code and the client of that code.
Resolvable(tok) ==
    /\ tok \in DOMAIN access
    /\ access[tok].client \in DOMAIN client
    /\ access[tok].authorize \in DOMAIN authorize
    /\ authorize[access[tok].authorize].client \in DOMAIN client

\* The access rows a walk from tok passes, following previous through the
\* rows that exist.
RECURSIVE Lineage(_, _)
Lineage(tok, fuel) ==
    IF fuel = 0 \/ tok \notin DOMAIN access THEN {}
    ELSE {tok} \cup (IF access[tok].previous = "" THEN {}
                     ELSE Lineage(access[tok].previous, fuel - 1))

\* C1: a SaveAccess with a non-empty refresh token that returns an error
\* leaves the access and the refresh table as the call found them, whatever
\* step failed; one that returns nil has written exactly the access row and
\* its refresh row; and no access row the call wrote lacks its refresh row.
C1_SaveAccessAtomic ==
    \A p \in procs :
        (Returned(p, "SaveAccess") /\ ret[p].arg.RefreshToken # "") =>
            LET data == ret[p].arg
                pre == ghost[p].pre
            IN  /\ Failed(p) =>
                      access = pre.access /\ refresh = pre.refresh
                /\ ~Failed(p) =>
                      /\ DOMAIN access = DOMAIN pre.access \cup {data.AccessToken}
                      /\ DOMAIN refresh =
                            DOMAIN pre.refresh \cup {data.RefreshToken}
                      /\ access[data.AccessToken].refresh_token =
                            data.RefreshToken
                      /\ refresh[data.RefreshToken].access = data.AccessToken
                /\ \A a \in DOMAIN access \ DOMAIN pre.access :
                      access[a].refresh_token # "" =>
                          /\ access[a].refresh_token \in DOMAIN refresh
                          /\ refresh[access[a].refresh_token].access = a

\* C1 witness: the refresh row went into the transaction, the access row
\* was rejected, and the call returned an error.
C1_Witness ==
    \E p \in procs :
        /\ Returned(p, "SaveAccess")
        /\ ret[p].arg.RefreshToken # ""
        /\ ret[p].arg.RefreshToken \notin DOMAIN ghost[p].pre.refresh
        /\ ghost[p].trig = {"DuplicateKey"}
        /\ Failed(p)

\* C2: LoadAccess of a token that has no access row returns an error and no
\* grant.
C2_LoadAccessMissingRowFails ==
    \A p \in procs :
        (Returned(p, "LoadAccess") /\ ret[p].arg \notin DOMAIN access) =>
            Failed(p) /\ ret[p].val = None

\* C3: an insert whose primary key is present (CreateClient, SaveAuthorize,
\* the access row and the refresh row of SaveAccess) returns an error and
\* leaves the table as it was.
C3_InsertNeverOverwrites ==
    \A p \in procs :
        LET pre == ghost[p].pre
        IN  /\ (Returned(p, "CreateClient") /\ ret[p].arg \in DOMAIN pre.client)
                  => Failed(p) /\ ret[p].val = None /\ client = pre.client
            /\ (Returned(p, "SaveAuthorize")
                    /\ ret[p].arg.Code \in DOMAIN pre.authorize)
                  => Failed(p) /\ authorize = pre.authorize
            /\ (Returned(p, "SaveAccess")
                    /\ ret[p].arg.AccessToken \in DOMAIN pre.access)
                  => Failed(p) /\ access = pre.access
            /\ (Returned(p, "SaveAccess")
                    /\ ret[p].arg.RefreshToken \in DOMAIN pre.refresh)
                  => Failed(p) /\ refresh = pre.refresh

\* C3 witness: a SaveAuthorize for a stored code, with another client than
\* the stored one, was rejected.
C3_Witness ==
    \E p \in procs :
        /\ Returned(p, "SaveAuthorize")
        /\ ret[p].arg.Code \in DOMAIN ghost[p].pre.authorize
        /\ ghost[p].pre.authorize[ret[p].arg.Code].client # ret[p].arg.Client.Id
        /\ ret[p].err = {"DuplicateKey"}

\* C4: UpdateClient of an id that has no client row returns an error and no
\* client.
C4_UpdateMissingClientFails ==
    \A p \in procs :
        (Returned(p, "UpdateClient")
            /\ ret[p].arg \notin DOMAIN ghost[p].pre.client) =>
                Failed(p) /\ ret[p].val = None

\* C5: LoadAccess terminates: its recursion never goes deeper than there
\* are access tokens.
C5_LoadAccessTerminates == \A p \in procs : pc[p] # "overflow"

\* C6: with grant a stored without predecessor, grant b stored with
\* previous = a, and the clients and authorization codes of both
\* resolvable, LoadAccess(b) returns b's fields with a's fields attached as
\* predecessor, and the predecessor has none.
C6_LineageChaining ==
    \A p \in procs :
        (/\ Returned(p, "LoadAccess")
         /\ Resolvable(ret[p].arg)
         /\ access[ret[p].arg].previous # ""
         /\ Resolvable(access[ret[p].arg].previous)
         /\ access[access[ret[p].arg].previous].previous = "") =>
            LET b == ret[p].arg
                a == access[b].previous
            IN  /\ ~Failed(p)
                /\ ret[p].val = Some(GrantOf(b, Some(GrantOf(a, None))))

\* C6 witness: such a load of b, with a another grant than b, has returned.
C6_Witness ==
    \E p \in procs :
        /\ Returned(p, "LoadAccess")
        /\ Resolvable(ret[p].arg)
        /\ access[ret[p].arg].previous \notin {"", ret[p].arg}
        /\ Resolvable(access[ret[p].arg].previous)
        /\ access[access[ret[p].arg].previous].previous = ""
        /\ ret[p].val # None
        /\ ret[p].val[1].AccessData # None
        /\ ret[p].val[1].AccessData[1].AccessData = None

\* C7: when a statement of SaveAccess fails and the rollback fails too, the
\* returned error carries the statement's error as well as the rollback's.
C7_OriginalErrorKept ==
    \A p \in procs :
        (Returned(p, "SaveAccess") /\ ghost[p].trig # {}
            /\ ghost[p].rb = "failed") =>
                /\ ghost[p].trig \subseteq ret[p].err
                /\ "RollbackFailed" \in ret[p].err

\* C8: CreateSchemas on a database that has the four tables returns nil and
\* changes nothing.
C8_CreateSchemasIdempotent ==
    \A p \in procs :
        (Returned(p, "CreateSchemas") /\ ghost[p].pre.schema = AllTables) =>
            ~Failed(p) /\ Snapshot = ghost[p].pre

\* C9: LoadAccess of a grant whose lineage holds a grant with a missing
\* authorization code (the grant itself included) returns an error and no
\* grant.
C9_DanglingAuthorizeFails ==
    \A p \in procs :
        (/\ Returned(p, "LoadAccess")
         /\ \E g \in Lineage(ret[p].arg, Cardinality(AccessTokens)) :
                access[g].authorize \notin DOMAIN authorize) =>
            Failed(p) /\ ret[p].val = None

\* C9 witness: the loaded grant has its client and its own code, the code
\* of its predecessor was deleted by RemoveAuthorize, and the load failed.
C9_Witness ==
    \E p \in procs :
        /\ Returned(p, "LoadAccess")
        /\ Resolvable(ret[p].arg)
        /\ access[ret[p].arg].previous \in DOMAIN access \ {ret[p].arg}
        /\ access[access[ret[p].arg].previous].client \in DOMAIN client
        /\ access[access[ret[p].arg].previous].authorize \in removedCodes
        /\ access[access[ret[p].arg].previous].authorize \notin DOMAIN authorize
        /\ Failed(p)

\* Two calls, p's started right before q's, neither hit by a failure of
\* Begin, Commit or Rollback, both returned.
Pair(p, q, op) ==
    /\ p # q
    /\ Returned(p, op)
    /\ Returned(q, op)
    /\ ghost[q].n = ghost[p].n + 1
    /\ ~ghost[p].fault
    /\ ~ghost[q].fault

\* SaveAccess(d) finds the tables and none of its keys in db.
KeysFree(d, db) ==
    /\ {"access", "refresh"} \subseteq db.schema
    /\ d.AccessToken \notin DOMAIN db.access
    /\ d.RefreshToken \notin DOMAIN db.refresh

\* Exactly one of p and q returned nil.
OneWinner(p, q) == Failed(p) # Failed(q)

Winner(p, q) == IF Failed(q) THEN p ELSE q

\* C10: of two SaveAuthorize calls for the same new code, or two SaveAccess
\* calls that start on the same tables, share the access token or the
\* refresh token and find all their keys new, however their steps
\* interleave exactly one returns nil, and the tables hold what the calls
\* found plus the rows of the one that returned nil.
C10_OneWinner ==
    \A p \in procs, q \in procs :
        /\ (/\ Pair(p, q, "SaveAuthorize")
            /\ ret[p].arg.Code = ret[q].arg.Code
            /\ "authorize" \in ghost[p].pre.schema
            /\ ret[p].arg.Code \notin DOMAIN ghost[p].pre.authorize) =>
                /\ OneWinner(p, q)
                /\ LET w == ret[Winner(p, q)].arg
                   IN  authorize = Put(ghost[p].pre.authorize, w.Code,
                                       AuthorizeRow(w))
        /\ (/\ Pair(p, q, "SaveAccess")
            /\ ghost[q].pre = ghost[p].pre
            /\ \/ ret[p].arg.AccessToken = ret[q].arg.AccessToken
               \/ /\ ret[p].arg.RefreshToken # ""
                  /\ ret[p].arg.RefreshToken = ret[q].arg.RefreshToken
            /\ KeysFree(ret[p].arg, ghost[p].pre)
            /\ KeysFree(ret[q].arg, ghost[p].pre)) =>
                /\ OneWinner(p, q)
                /\ LET w == ret[Winner(p, q)].arg
                   IN  /\ access = Put(ghost[p].pre.access, w.AccessToken,
                                       AccessRow(w))
                       /\ refresh =
                            IF w.RefreshToken = "" THEN ghost[p].pre.refresh
                            ELSE Put(ghost[p].pre.refresh, w.RefreshToken,
                                     [token |-> w.RefreshToken,
                                      access |-> w.AccessToken])

\* C10 witness: two SaveAccess calls for one access token with different
\* refresh tokens; the one that started first lost, after its refresh row
\* had gone into its transaction.
C10_Witness ==
    \E p \in procs, q \in procs :
        /\ Pair(p, q, "SaveAccess")
        /\ ghost[q].pre = ghost[p].pre
        /\ ret[p].arg.AccessToken = ret[q].arg.AccessToken
        /\ ret[p].arg.RefreshToken # ""
        /\ ret[q].arg.RefreshToken # ""
        /\ ret[p].arg.RefreshToken # ret[q].arg.RefreshToken
        /\ KeysFree(ret[p].arg, ghost[p].pre)
        /\ KeysFree(ret[q].arg, ghost[p].pre)
        /\ Failed(p)
        /\ ~Failed(q)
        /\ ret[p].arg.RefreshToken \notin DOMAIN refresh

\* The access rows of db on the walk from tok all exist: the walk reaches an
\* empty previous within fuel rows.
RECURSIVE ChainIn(_, _, _)
ChainIn(db, tok, fuel) ==
    /\ fuel > 0
    /\ tok \in DOMAIN db.access
    /\ \/ db.access[tok].previous = ""
       \/ ChainIn(db, db.access[tok].previous, fuel - 1)

\* A grant, or a grant attached to it at any level, that holds the zero
\* values of a row that was not found (stored access tokens are not empty).
RECURSIVE HasBlank(_)
HasBlank(g) ==
    \/ g.AccessToken = ""
    \/ g.Client = None
    \/ g.AuthorizeData = None
    \/ g.AccessData # None /\ HasBlank(g.AccessData[1])

\* The access token a load starts its walk from, read off the tables the
\* call found ("" when a LoadRefresh finds no mapping row).
StartOf(p) ==
    IF ret[p].op = "LoadAccess" THEN ret[p].arg
    ELSE IF ret[p].arg \in DOMAIN ghost[p].pre.refresh
    THEN ghost[p].pre.refresh[ret[p].arg].access
    ELSE ""

\* The first lookup of the load found its record: the mapping row of a
\* LoadRefresh (read as the call starts), the row of the token for a
\* LoadAccess.
FirstHopRead(p) ==
    \/ ret[p].op = "LoadRefresh"
    \/ ret[p].val # None /\ ret[p].val[1].AccessToken = ret[p].arg

\* C11: a LoadAccess or LoadRefresh that started when every record of its
\* walk existed and whose first lookup found its record, with other
\* callers' removes running between its lookups, returns an error and no
\* grant, or a grant no level of which is blank.
C11_VanishedRowFails ==
    \A p \in procs :
        (/\ Returned(p, "LoadAccess") \/ Returned(p, "LoadRefresh")
         /\ ChainIn(ghost[p].pre, StartOf(p), Cardinality(AccessTokens))
         /\ FirstHopRead(p)) =>
            \/ Failed(p) /\ ret[p].val = None
            \/ ~Failed(p) /\ ret[p].val # None /\ ~HasBlank(ret[p].val[1])

\* The remove handlers and the table each deletes from.
Removes ==
    { <<"RemoveAuthorize", "authorize">>, <<"RemoveAccess", "access">>,
      <<"RemoveRefresh", "refresh">> }

\* C12: on a bootstrapped store a remove returns nil whether or not the key
\* has a record; with no record it leaves the four tables as they were, and
\* in every case the key has no record afterwards, so that a second remove
\* of the key changes nothing.
C12_RemoveIdempotent ==
    \A p \in procs : \A rm \in Removes :
        (Returned(p, rm[1]) /\ rm[2] \in ghost[p].pre.schema) =>
            LET pre == ghost[p].pre
            IN  /\ ~Failed(p)
                /\ ret[p].arg \notin DOMAIN pre[rm[2]] => Snapshot = pre
                /\ ret[p].arg \notin DOMAIN Snapshot[rm[2]]
                /\ Snapshot = [pre EXCEPT ![rm[2]] = Drop(@, ret[p].arg)]

\* C12 witness: a RemoveAuthorize of a code that an earlier RemoveAuthorize
\* deleted, and that was not saved since, has returned nil.
C12_Witness ==
    \E p \in procs :
        /\ Returned(p, "RemoveAuthorize")
        /\ ret[p].arg \in removedCodes
        /\ ret[p].arg \notin DOMAIN ghost[p].pre.authorize
        /\ ~Failed(p)
        /\ Snapshot = ghost[p].pre

\* The grant of tok with the grants of its predecessors attached, read off
\* the tables.
RECURSIVE ChainGrant(_, _)
ChainGrant(tok, fuel) ==
    GrantOf(tok, IF access[tok].previous = "" \/ fuel = 1 THEN None
                 ELSE Some(ChainGrant(access[tok].previous, fuel - 1)))

\* Every grant on the walk from tok exists and resolves, and the walk ends
\* at a grant with no predecessor.
LineageResolvable(tok) ==
    /\ ChainIn(Snapshot, tok, Cardinality(AccessTokens))
    /\ \A g \in Lineage(tok, Cardinality(AccessTokens)) : Resolvable(g)

\* The rows a successful SaveAccess of token a with refresh token r wrote
\* are in the tables.
SavedWithRefresh(a, r) ==
    /\ a \in DOMAIN access
    /\ r # ""
    /\ access[a].refresh_token = r
    /\ r \in DOMAIN refresh
    /\ refresh[r].access = a

\* Caller p has returned what LoadAccess(tok) returns on the tables.
ReturnedAs(p, tok) ==
    LET e == LoadAccess(tok, 1)
    IN  e.returns /\ ret[p].err = e.err /\ ret[p].val = e.val

\* C13 as stated: with the rows of a grant saved with a refresh token in
\* the tables and the grant's own client and code present, LoadAccess of
\* the access token and LoadRefresh of the refresh token succeed and return
\* the same grant.
C13_SavedGrantLoads ==
    \A p \in procs : \A a \in AccessTokens, r \in RefreshTokens :
        (SavedWithRefresh(a, r) /\ Resolvable(a)) =>
            /\ (Returned(p, "LoadAccess") /\ ret[p].arg = a) =>
                    ~Failed(p) /\ ReturnedAs(p, a)
            /\ (Returned(p, "LoadRefresh") /\ ret[p].arg = r) =>
                    ~Failed(p) /\ ReturnedAs(p, a)

\* C13, amended: with the rows of a grant saved with a refresh token in the
\* tables and every grant of its lineage present with its client and code,
\* LoadAccess of the access token and LoadRefresh of the refresh token
\* succeed and return the lineage-resolved grant; and every LoadRefresh
\* that finds its mapping row returns what LoadAccess returns for the
\* access token in that row.
C13_RefreshDelegates ==
    \A p \in procs :
        /\ \A a \in AccessTokens, r \in RefreshTokens :
              (SavedWithRefresh(a, r) /\ LineageResolvable(a)) =>
                  LET g == Some(ChainGrant(a, Cardinality(AccessTokens)))
                  IN  /\ (Returned(p, "LoadAccess") /\ ret[p].arg = a) =>
                              ~Failed(p) /\ ret[p].val = g
                      /\ (Returned(p, "LoadRefresh") /\ ret[p].arg = r) =>
                              ~Failed(p) /\ ret[p].val = g
        /\ (Returned(p, "LoadRefresh") /\ ret[p].arg \in DOMAIN refresh) =>
              ReturnedAs(p, refresh[ret[p].arg].access)
        /\ (Returned(p, "LoadRefresh") /\ ret[p].arg \notin DOMAIN refresh) =>
              Failed(p) /\ ret[p].val = None
        /\ Returned(p, "LoadRefresh") =>
              LET e == LoadRefresh(ret[p].arg)
              IN  e.returns /\ ret[p].err = e.err /\ ret[p].val = e.val
        /\ Returned(p, "LoadAccess") => ReturnedAs(p, ret[p].arg)

\* C13 witness: a LoadRefresh of the refresh token of a grant that has a
\* predecessor returned the grant with the predecessor attached.
C13_Witness ==
    \E p \in procs :
        /\ Returned(p, "LoadRefresh")
        /\ ret[p].arg \in DOMAIN refresh
        /\ SavedWithRefresh(refresh[ret[p].arg].access, ret[p].arg)
        /\ LineageResolvable(refresh[ret[p].arg].access)
        /\ access[refresh[ret[p].arg].access].previous # ""
        /\ ~Failed(p)
        /\ ret[p].val # None
        /\ ret[p].val[1].AccessData # None

\* C14: a SaveAccess that returns nil for a grant with a predecessor found
\* the access row of the predecessor in the table.
C14_PreviousExistsAtSave ==
    \A p \in procs :
        (Returned(p, "SaveAccess") /\ ~Failed(p) /\ Prev(ret[p].arg) # "") =>
            Prev(ret[p].arg) \in DOMAIN ghost[p].pre.access

\* The grant LoadAuthorize is expected to return for the saved data: its
\* fields, and the client record stored now under its client id.
SavedAuthorize(data) ==
    [Client |-> Some(ClientOf(GetId(data.Client))), Code |-> data.Code,
     ExpiresIn |-> data.ExpiresIn, Scope |-> data.Scope,
     RedirectUri |-> data.RedirectUri, State |-> data.State,
     CreatedAt |-> data.CreatedAt]

\* C15: once SaveAuthorize has returned nil for a grant whose client is
\* registered, LoadAuthorize of its code returns the saved fields with the
\* stored client; a LoadAuthorize of a stored code whose client is
\* registered returns the row with that client; once RemoveAuthorize has
\* returned nil, and as long as the code is not saved again, LoadAuthorize
\* of the code returns an error and no grant.
C15_AuthorizeLifecycle ==
    \A p \in procs :
        /\ (Returned(p, "SaveAuthorize") /\ ~Failed(p)
                /\ GetId(ret[p].arg.Client) \in DOMAIN client) =>
              LET r == LoadAuthorize(ret[p].arg.Code)
              IN  r.err = {} /\ r.val = Some(SavedAuthorize(ret[p].arg))
        /\ (Returned(p, "LoadAuthorize") /\ ret[p].arg \in DOMAIN authorize
                /\ authorize[ret[p].arg].client \in DOMAIN client) =>
              ~Failed(p) /\ ret[p].val = Some(AuthorizeOf(ret[p].arg))
        /\ (Returned(p, "RemoveAuthorize") /\ ~Failed(p)) =>
              LET r == LoadAuthorize(ret[p].arg)
              IN  r.err # {} /\ r.val = None
        /\ (Returned(p, "LoadAuthorize") /\ ret[p].arg \in removedCodes) =>
              Failed(p) /\ ret[p].val = None

\* C15 witness: the code with the empty key, saved in this behaviour for
\* client c1, was loaded after UpdateClient gave c1 another secret, and the
\* load returned the client as stored now.
C15_Witness ==
    \E p \in procs :
        /\ Returned(p, "LoadAuthorize")
        /\ ret[p].arg = ""
        /\ ~Failed(p)
        /\ ret[p].val # None
        /\ "c1" \in DOMAIN client
        /\ client["c1"].secret = "s2"
        /\ ret[p].val[1].Client = Some(ClientOf("c1"))

\* C16: RemoveRefresh(r) leaves the schema and the client, authorize and
\* access tables as they were and takes nothing but the row of r out of
\* the refresh table; the grant the row pointed at, when its lineage
\* resolves, is still what LoadAccess of its access token returns.
C16_RemoveRefreshFrame ==
    \A p \in procs :
        Returned(p, "RemoveRefresh") =>
            LET pre == ghost[p].pre
                r == ret[p].arg
            IN  /\ schema = pre.schema
                /\ client = pre.client
                /\ authorize = pre.authorize
                /\ access = pre.access
                /\ refresh \in {pre.refresh, Drop(pre.refresh, r)}
                /\ (r \in DOMAIN pre.refresh
                        /\ LineageResolvable(pre.refresh[r].access)) =>
                      LET a == pre.refresh[r].access
                          l == LoadAccess(a, 1)
                      IN  /\ l.returns
                          /\ l.err = {}
                          /\ l.val = Some(ChainGrant(a,
                                              Cardinality(AccessTokens)))

\* C16 witness: RemoveRefresh deleted the mapping row of a grant that has
\* a predecessor and whose lineage resolves, while another mapping row
\* stayed.
C16_Witness ==
    \E p \in procs :
        /\ Returned(p, "RemoveRefresh")
        /\ ~Failed(p)
        /\ ret[p].arg \in DOMAIN ghost[p].pre.refresh
        /\ ret[p].arg \notin DOMAIN refresh
        /\ refresh # EmptyTable
        /\ LineageResolvable(ghost[p].pre.refresh[ret[p].arg].access)
        /\ access[ghost[p].pre.refresh[ret[p].arg].access].previous # ""

\* Caller p is between Begin and the end of a SaveAccess call.
InSaveAccess(p) == pc[p] \in {"sa_refresh", "sa_access", "sa_commit"}

\* C17: a caller that is not inside SaveAccess holds no open transaction,
\* and a SaveAccess whose Begin succeeded has, once it is over, ended its
\* transaction exactly once, by one Commit or one Rollback.
C17_TransactionEndedOnce ==
    \A p \in procs :
        /\ ~InSaveAccess(p) => ~tx[p].open
        /\ (ret[p].op = "SaveAccess" /\ ~InSaveAccess(p)
                /\ ret[p].err # {"BeginFailed"}) =>
              ghost[p].ends = 1
        /\ InSaveAccess(p) => tx[p].open /\ ghost[p].ends = 0

\* Every level of grant g, loaded for token tok, that has an access row
\* carries the client record stored now under the client id of the row, and
\* its authorization grant the client stored now under the id of the
\* authorize row.
RECURSIVE ClientsCurrent(_, _)
ClientsCurrent(g, tok) ==
    tok \in DOMAIN access =>
    /\ access[tok].client \in DOMAIN client
    /\ g.Client = Some(ClientOf(access[tok].client))
    /\ g.AuthorizeData # None
    /\ access[tok].authorize \in DOMAIN authorize
    /\ authorize[access[tok].authorize].client \in DOMAIN client
    /\ g.AuthorizeData[1].Client =
          Some(ClientOf(authorize[access[tok].authorize].client))
    /\ g.AccessData # None =>
          ClientsCurrent(g.AccessData[1], access[tok].previous)

\* C18: right after UpdateClient has changed an existing client, the loads
\* of the codes and of the resolvable grants bound to it return the values
\* the update was given; whenever a load of a stored code or grant returns
\* a value, the clients in it are the records stored now; and a
\* LoadAuthorize or LoadAccess of a row whose client id has no record
\* returns an error and no grant.
C18_ClientResolvedAtLoad ==
    \A p \in procs :
        /\ (Returned(p, "UpdateClient") /\ ~Failed(p)
                /\ ret[p].arg \in DOMAIN ghost[p].pre.client) =>
              /\ \A code \in DOMAIN authorize :
                    authorize[code].client = ret[p].arg =>
                        LoadAuthorize(code).val # None
                        /\ LoadAuthorize(code).val[1].Client = Some(ret[p].val[1])
              /\ \A a \in DOMAIN access :
                    (access[a].client = ret[p].arg /\ LineageResolvable(a)) =>
                        /\ LoadAccess(a, 1).val # None
                        /\ LoadAccess(a, 1).val[1].Client = Some(ret[p].val[1])
        /\ (Returned(p, "LoadAuthorize") /\ ~Failed(p)) =>
              /\ ret[p].val # None
              /\ ret[p].val[1].Client =
                    Some(ClientOf(authorize[ret[p].arg].client))
        /\ (Returned(p, "LoadAccess") /\ ~Failed(p)
                /\ ret[p].arg \in DOMAIN access) =>
              ret[p].val # None /\ ClientsCurrent(ret[p].val[1], ret[p].arg)
        /\ (Returned(p, "LoadRefresh") /\ ~Failed(p)
                /\ refresh[ret[p].arg].access \in DOMAIN access) =>
              /\ ret[p].val # None
              /\ ClientsCurrent(ret[p].val[1], refresh[ret[p].arg].access)
        /\ (Returned(p, "LoadAuthorize") /\ ret[p].arg \in DOMAIN authorize
                /\ authorize[ret[p].arg].client \notin DOMAIN client) =>
              Failed(p) /\ ret[p].val = None
        /\ (Returned(p, "LoadAccess") /\ ret[p].arg \in DOMAIN access
                /\ access[ret[p].arg].client \notin DOMAIN client) =>
              Failed(p) /\ ret[p].val = None

\* C18 witness: UpdateClient gave the client of a stored grant and of its
\* code another secret.
C18_Witness ==
    \E p \in procs :
        /\ Returned(p, "UpdateClient")
        /\ ~Failed(p)
        /\ ret[p].arg \in DOMAIN ghost[p].pre.client
        /\ ghost[p].pre.client[ret[p].arg].secret # ret[p].val[1].Secret
        /\ \E a \in DOMAIN access :
              /\ access[a].client = ret[p].arg
              /\ LineageResolvable(a)
              /\ authorize[access[a].authorize].client = ret[p].arg

\* C19: when GetClient, LoadAuthorize, LoadAccess or LoadRefresh has
\* returned, with a value or with an error, the schema and the four tables
\* are as the call found them; and LoadAuthorize called again for the same
\* code returns what the call returned.
C19_ReadsWriteNothing ==
    \A p \in procs :
        /\ (\E op \in Reads : Returned(p, op)) => Snapshot = ghost[p].pre
        /\ Returned(p, "LoadAuthorize") =>
              LET r == LoadAuthorize(ret[p].arg)
              IN  r.err = ret[p].err /\ r.val = ret[p].val

\* C19 witness: a LoadAuthorize returned a grant, and its code is still
\* stored.
C19_Witness ==
    \E p \in procs :
        /\ Returned(p, "LoadAuthorize")
        /\ ~Failed(p)
        /\ ret[p].val # None
        /\ ret[p].arg \in DOMAIN authorize
        /\ LoadAuthorize(ret[p].arg).val = ret[p].val

\* RemoveAccess took the access row of its token and nothing else.
RemoveAccessFrame(p) ==
    Returned(p, "RemoveAccess") =>
        LET pre == ghost[p].pre
        IN  /\ schema = pre.schema
            /\ client = pre.client
            /\ authorize = pre.authorize
            /\ refresh = pre.refresh
            /\ access \in {pre.access, Drop(pre.access, ret[p].arg)}
            /\ "access" \in pre.schema => ret[p].arg \notin DOMAIN access

\* A SaveAccess whose refresh token has a mapping row failed and wrote
\* nothing.
StaleRefreshBlocksSave(p) ==
    (Returned(p, "SaveAccess") /\ ret[p].arg.RefreshToken # ""
        /\ ret[p].arg.RefreshToken \in DOMAIN ghost[p].pre.refresh) =>
            /\ Failed(p)
            /\ access = ghost[p].pre.access
            /\ refresh = ghost[p].pre.refresh

\* C20: RemoveAccess deletes the access row and leaves its refresh mapping
\* row; a LoadRefresh of a mapping row whose access row is gone returns an
\* error and no grant; and a SaveAccess that reuses the refresh token of a
\* mapping row fails and writes nothing.
C20_StaleRefreshRow ==
    \A p \in procs :
        /\ RemoveAccessFrame(p)
        /\ StaleRefreshBlocksSave(p)
        /\ (Returned(p, "LoadRefresh") /\ ret[p].arg \in DOMAIN refresh
                /\ refresh[ret[p].arg].access \notin DOMAIN access) =>
              Failed(p) /\ ret[p].val = None

====
